---- MODULE Spec2Model ----
(***************************************************************************)
(* Model of run.py: a Streamlit page that reads two secrets, queries one   *)
(* Notion database, flattens the result items into rows, averages three    *)
(* metrics per date and draws a chart.                                     *)
(*                                                                         *)
(* Python values are encoded uniformly so that TLC can compare them:       *)
(*   an optional value is a sequence of length <= 1: None is << >> and a   *)
(*   present value x is <<x>>;                                             *)
(*   a dict with a fixed shape is a record;                                *)
(*   a dict with arbitrary keys (a PropertyMap) is a sequence of           *)
(*   [name, value] entries in insertion order, names distinct.             *)
(***************************************************************************)
EXTENDS Integers, Sequences, FiniteSets, TLC

VARIABLES
    pc,             \* position of the run inside main() / the called function
    environ,        \* os.environ, restricted to the two names read
    env_file,       \* key=value pairs of the .env file (None: no such key / no file)
    secrets,        \* st.secrets (None: store not configured / key not found)
    notion_token,   \* main: notion_token
    database_id,    \* main: database_id
    http_requests,  \* number of requests.post calls issued
    response,       \* the HTTP response received by fetch_notion_rows
    rows,           \* main: rows (None while not fetched or when fetch returned None)
    df,             \* main: df
    dtypes,         \* dtype of each metric column of df
    raw_date_count, \* main: raw_date_count
    daily_avg_df,   \* main: daily_avg_df (rows)
    agg_cols,       \* metric columns present in daily_avg_df
    shown,          \* calls made on the display surface (st.*), in order
    exception,      \* name of the exception that ended the run, "" if none
    props,          \* argument of extract_date_value
    date_value      \* value returned by extract_date_value

vars == <<pc, environ, env_file, secrets, notion_token, database_id,
          http_requests, response, rows, df, dtypes, raw_date_count,
          daily_avg_df, agg_cols, shown, exception, props, date_value>>

None == << >>
Some(x) == <<x>>

(***************************************************************************)
(* Bounds                                                                  *)
(***************************************************************************)
MaxProps == 3       \* properties in a PropertyMap handed to extract_date_value
MaxItems == 2       \* items in the results list of a response
MaxRows == 3        \* records handed to the aggregation

(***************************************************************************)
(* Names                                                                   *)
(***************************************************************************)
chart_cols == <<"GijunMAX", "SujuSeolgye", "JoeopSiljeok">>
ChartCols == {chart_cols[i] : i \in 1..Len(chart_cols)}

(***************************************************************************)
(* Property values of a Notion item.                                       *)
(* A date object that is None and one that is {} are both falsy at the     *)
(* only two places that look at it, so both are the value None here.       *)
(***************************************************************************)
DateProp(start) == Some([type |-> "date", date |-> Some([start |-> start]), number |-> None])
EmptyDateProp == Some([type |-> "date", date |-> None, number |-> None])
NumberProp(n) == Some([type |-> "number", date |-> None, number |-> n])
OtherProp == Some([type |-> "rich_text", date |-> None, number |-> None])

\* dict.get(name): the value stored under name, None when the key is missing
Get(p, name) ==
    IF \E i \in 1..Len(p) : p[i].name = name
    THEN p[CHOOSE i \in 1..Len(p) : p[i].name = name].value
    ELSE None

\* isinstance(prop, dict) and prop.get("type") == "date"
IsDateTyped(v) == v # None /\ v[1].type = "date"

\* index of the first entry a loop over p.values() returns from, 0 if none
FirstDateHit(p) ==
    LET hits == {i \in 1..Len(p) : IsDateTyped(p[i].value) /\ p[i].value[1].date # None}
    IN IF hits = {} THEN 0 ELSE CHOOSE i \in hits : \A j \in hits : i <= j

\* variant: the scan alone, without the preference for the key "date"
extract_date_value_scan_only(p) ==
    IF FirstDateHit(p) # 0
    THEN p[FirstDateHit(p)].value[1].date[1].start
    ELSE None

\* variant: a date-typed "date" property decides alone, date object or not
extract_date_value_named_final(p) ==
    LET date_prop == Get(p, "date")
    IN IF IsDateTyped(date_prop)
       THEN IF date_prop[1].date # None THEN date_prop[1].date[1].start ELSE None
       ELSE IF FirstDateHit(p) # 0
            THEN p[FirstDateHit(p)].value[1].date[1].start
            ELSE None

extract_date_value(p) ==
    LET date_prop == Get(p, "date")
    IN IF IsDateTyped(date_prop) /\ date_prop[1].date # None
       THEN date_prop[1].date[1].start
       ELSE IF FirstDateHit(p) # 0
            THEN p[FirstDateHit(p)].value[1].date[1].start
            ELSE None

(***************************************************************************)
(* Configuration: load_local_env, read_secret                              *)
(***************************************************************************)
SecretNames == {"NOTION_TOKEN", "DATABASE_ID"}
ConfigValues == {None, Some(""), Some("secret")}

\* Python truthiness of an optional string
Truthy(v) == v # None /\ v[1] # ""

\* os.environ after load_local_env: a key of the file is set only when the
\* environment does not hold the key at all (an empty value counts as held)
load_local_env(env, file) ==
    [n \in SecretNames |-> IF file[n] # None /\ env[n] = None THEN file[n] ELSE env[n]]

read_secret(name) ==
    IF Truthy(environ[name]) THEN environ[name] ELSE secrets[name]

(***************************************************************************)
(* The display surface                                                     *)
(***************************************************************************)
Call(call, msg, arg) == [call |-> call, msg |-> msg, arg |-> arg]
Title == Call("markdown", "title", 0)
Has(call, msg) == \E i \in 1..Len(shown) : shown[i].call = call /\ shown[i].msg = msg
Messages == {i \in 1..Len(shown) : shown[i].call \in {"error", "warning"}}

(***************************************************************************)
(* fetch_notion_rows                                                       *)
(***************************************************************************)
HTTP_OK == 200

\* variant: every 2xx status accepted
FetchOutcome_any_2xx(r) ==
    IF ~r.transport_ok THEN "connection_failed"
    ELSE IF ~r.is_json THEN "not_json"
    ELSE IF r.status_code \notin 200..299 THEN "http_error"
    ELSE IF r.results = None THEN "no_results"
    ELSE "ok"

\* the request outcome classes, in the order the code tests them
FetchOutcome(r) ==
    IF ~r.transport_ok THEN "connection_failed"
    ELSE IF ~r.is_json THEN "not_json"
    ELSE IF r.status_code # HTTP_OK THEN "http_error"
    ELSE IF r.results = None THEN "no_results"
    ELSE "ok"

\* what fetch_notion_rows shows before it returns None
FetchReport(r) ==
    CASE FetchOutcome(r) = "connection_failed" -> <<Call("error", "connection_failed", 0)>>
      [] FetchOutcome(r) = "not_json" ->
            <<Call("error", "not_json", r.status_code), Call("text", "body", 0)>>
      [] FetchOutcome(r) = "http_error" ->
            <<Call("error", "http_error", r.status_code), Call("json", "payload", 0)>>
      [] FetchOutcome(r) = "no_results" ->
            <<Call("error", "no_results", 0), Call("json", "payload", 0)>>
      [] OTHER -> << >>

\* item.get("properties", {}): {} only when the key is missing; a key that is
\* present with the value null gives None
ItemProps(item) == IF item.has_properties THEN item.properties ELSE Some(<< >>)

\* props.get / props.values on None raises AttributeError
ItemRaises(item) == ItemProps(item) = None

\* (props.get(name) or {}).get("number")
NumberOf(p, name) == IF Get(p, name) = None THEN None ELSE Get(p, name)[1].number

MapItem(item) ==
    LET p == ItemProps(item)[1]
    IN [date |-> extract_date_value(p),
        GijunMAX |-> NumberOf(p, "GijunMAX"),
        SujuSeolgye |-> NumberOf(p, "SujuSeolgye"),
        JoeopSiljeok |-> NumberOf(p, "JoeopSiljeok")]

MapItems(data) == [i \in 1..Len(data) |-> MapItem(data[i])]

AnyItemRaises(data) == \E i \in 1..Len(data) : ItemRaises(data[i])

(***************************************************************************)
(* The table: pd.to_datetime, dropna, sort_values, groupby().mean()        *)
(***************************************************************************)
\* pd.to_datetime(errors="coerce") of one raw value: a timestamp, counted in
\* hours since 2024-01-01T00:00, or None (NaT) for None and for text that is
\* no date. The date texts of the model share one format, so that parsing
\* one value does not depend on the other values of the column.
to_datetime(raw) ==
    IF raw = None THEN None
    ELSE CASE raw[1] = "2024-01-01T00:00:00" -> Some(0)
           [] raw[1] = "2024-01-01T09:00:00" -> Some(9)
           [] raw[1] = "2024-01-01T15:00:00" -> Some(15)
           [] raw[1] = "2024-01-02T00:00:00" -> Some(24)
           [] OTHER -> None

\* the calendar date of a timestamp
CalendarDay(ts) == ts \div 24

\* the rows of d whose date is not NaT, in order
dropna(d) == SelectSeq(d, LAMBDA r : r.date # None)

RECURSIVE InsertByDate(_, _)
InsertByDate(sorted, r) ==
    IF sorted = << >> THEN <<r>>
    ELSE IF r.date[1] < Head(sorted).date[1] THEN <<r>> \o sorted
    ELSE <<Head(sorted)>> \o InsertByDate(Tail(sorted), r)

RECURSIVE sort_values(_)
\* rows in ascending order of date, equal dates in their given order
sort_values(d) ==
    IF d = << >> THEN << >>
    ELSE InsertByDate(sort_values(SubSeq(d, 1, Len(d) - 1)), d[Len(d)])

\* dtype of a column built from a list of dicts: numeric as soon as one
\* value is a number (None becomes NaN), object when every value is None
ColumnDtype(rs, m) == IF \E i \in 1..Len(rs) : rs[i][m] # None THEN "float64" ELSE "object"

RECURSIVE SumSeq(_)
SumSeq(xs) == IF xs = << >> THEN 0 ELSE Head(xs) + SumSeq(Tail(xs))

RECURSIVE GCD(_, _)
GCD(a, b) == IF b = 0 THEN a ELSE GCD(b, a % b)

\* mean with skipna: None (NaN) for no value, else sum / count as a reduced
\* fraction
Mean(column) ==
    LET present == SelectSeq(column, LAMBDA v : v # None)
        values == [i \in 1..Len(present) |-> present[i][1]]
        s == SumSeq(values)
        n == Len(values)
        g == GCD(n, s)
    IN IF n = 0 THEN None ELSE Some([num |-> s \div g, den |-> n \div g])

\* the group key of a row: df["date"] holds whole timestamps
GroupKey(r) == r.date[1]

\* the distinct keys in ascending order
RECURSIVE SortedKeys(_)
SortedKeys(keys) ==
    IF keys = {} THEN << >>
    ELSE LET k == CHOOSE x \in keys : \A y \in keys : x <= y
         IN <<k>> \o SortedKeys(keys \ {k})

\* the columns mean(numeric_only=True) keeps
NumericCols(types) == {m \in ChartCols : types[m] # "object"}

\* df.groupby("date", as_index=False)[chart_cols].mean(numeric_only=True)
\*   .sort_values("date")
groupby_mean(d, types) ==
    LET keys == SortedKeys({GroupKey(d[i]) : i \in 1..Len(d)})
        group(k) == SelectSeq(d, LAMBDA r : GroupKey(r) = k)
        column(g, m) == [i \in 1..Len(g) |-> g[i][m]]
    IN [j \in 1..Len(keys) |->
          [date |-> keys[j],
           mean |-> [m \in NumericCols(types) |-> Mean(column(group(keys[j]), m))]]]

\* melt(value_vars=chart_cols) raises KeyError for a column that is missing
melt_raises(cols) == \E i \in 1..Len(chart_cols) : chart_cols[i] \notin cols

(***************************************************************************)
(* Inputs                                                                  *)
(***************************************************************************)
Entry(n, v) == [name |-> n, value |-> v]

SeqsUpTo(S, n) == UNION {[1..k -> S] : k \in 0..n}

\* PropertyMaps handed to extract_date_value: up to MaxProps entries with
\* distinct names, each null, not date-typed, date-typed without a date
\* object, or date-typed with a start value (None included)
ExtractNames == {"date", "Date", "due", "created"}
ExtractValues ==
    {None, OtherProp, EmptyDateProp, DateProp(None),
     DateProp(Some("2024-01-01T09:00:00")), DateProp(Some("2024-01-02T00:00:00"))}
PropertyMaps ==
    {p \in SeqsUpTo({Entry(n, v) : n \in ExtractNames, v \in ExtractValues}, MaxProps) :
        \A i, j \in 1..Len(p) : p[i].name = p[j].name => i = j}

\* result items of a response
FetchMaps ==
    { <<Entry("date", DateProp(Some("2024-01-01T09:00:00"))),
        Entry("GijunMAX", NumberProp(Some(1))),
        Entry("SujuSeolgye", NumberProp(Some(2))),
        Entry("JoeopSiljeok", NumberProp(Some(3)))>>,
      <<Entry("due", DateProp(Some("not-a-date"))),
        Entry("GijunMAX", None),
        Entry("JoeopSiljeok", NumberProp(None))>>,
      <<Entry("date", EmptyDateProp),
        Entry("GijunMAX", NumberProp(Some(3)))>>,
      << >> }
Items ==
    {[has_properties |-> FALSE, properties |-> None],
     [has_properties |-> TRUE, properties |-> None]}
    \cup {[has_properties |-> TRUE, properties |-> Some(p)] : p \in FetchMaps}

StatusCodes == {200, 201, 401}

Responses ==
    {[transport_ok |-> FALSE, is_json |-> FALSE, status_code |-> 0, results |-> None]}
    \cup {[transport_ok |-> TRUE, is_json |-> FALSE, status_code |-> c, results |-> None] :
            c \in StatusCodes}
    \cup {[transport_ok |-> TRUE, is_json |-> TRUE, status_code |-> c, results |-> r] :
            c \in StatusCodes,
            r \in {None} \cup {Some(d) : d \in SeqsUpTo(Items, MaxItems)}}

\* records handed to the aggregation
Records ==
    {[date |-> d, GijunMAX |-> g, SujuSeolgye |-> s, JoeopSiljeok |-> Some(3)] :
        d \in {None, Some("2024-01-01T09:00:00"), Some("2024-01-01T15:00:00"),
               Some("2024-01-02T00:00:00")},
        g \in {None, Some(1), Some(4)},
        s \in {None, Some(2)}}

\* an item that fetch_notion_rows maps to the record r
ItemOf(r) ==
    [has_properties |-> TRUE,
     properties |-> Some(<<Entry("date", IF r.date = None THEN EmptyDateProp ELSE DateProp(r.date)),
                           Entry("GijunMAX", NumberProp(r.GijunMAX)),
                           Entry("SujuSeolgye", NumberProp(r.SujuSeolgye)),
                           Entry("JoeopSiljeok", NumberProp(r.JoeopSiljeok))>>)]

(***************************************************************************)
(* Initial states                                                          *)
(***************************************************************************)
NoFrame ==
    /\ df = << >>
    /\ dtypes = [m \in ChartCols |-> "object"]
    /\ raw_date_count = 0
    /\ daily_avg_df = << >>
    /\ agg_cols = {}
    /\ exception = ""

NoExtract ==
    /\ props = << >>
    /\ date_value = None

\* the start of main()
Init ==
    /\ pc = "start"
    /\ environ \in [SecretNames -> ConfigValues]
    /\ env_file \in [SecretNames -> ConfigValues]
    /\ secrets \in [SecretNames -> ConfigValues]
    /\ notion_token = None
    /\ database_id = None
    /\ http_requests = 0
    /\ response = None
    /\ rows = None
    /\ shown = << >>
    /\ NoFrame
    /\ NoExtract

\* main() right after fetch_notion_rows returned a list of records
InitAgg ==
    /\ pc = "fetched"
    /\ environ = [n \in SecretNames |-> Some("secret")]
    /\ env_file = [n \in SecretNames |-> None]
    /\ secrets = [n \in SecretNames |-> None]
    /\ notion_token = Some("secret")
    /\ database_id = Some("secret")
    /\ http_requests = 1
    /\ \E rs \in SeqsUpTo(Records, MaxRows) :
          /\ rows = Some(rs)
          /\ response = Some([transport_ok |-> TRUE, is_json |-> TRUE, status_code |-> HTTP_OK,
                              results |-> Some([i \in 1..Len(rs) |-> ItemOf(rs[i])])])
    /\ shown = <<Title>>
    /\ NoFrame
    /\ NoExtract

\* a call of extract_date_value
InitExtract ==
    /\ pc = "extract_date_value"
    /\ environ = [n \in SecretNames |-> Some("secret")]
    /\ env_file = [n \in SecretNames |-> None]
    /\ secrets = [n \in SecretNames |-> None]
    /\ notion_token = Some("secret")
    /\ database_id = Some("secret")
    /\ http_requests = 1
    /\ props \in PropertyMaps
    /\ response = Some([transport_ok |-> TRUE, is_json |-> TRUE, status_code |-> HTTP_OK,
                        results |-> Some(<<[has_properties |-> TRUE,
                                            properties |-> Some(props)]>>)])
    /\ rows = None
    /\ shown = <<Title>>
    /\ NoFrame
    /\ date_value = None

(***************************************************************************)
(* Actions                                                                 *)
(***************************************************************************)
frame_vars == <<df, dtypes, raw_date_count, daily_avg_df, agg_cols>>
config_vars == <<environ, env_file, secrets, notion_token, database_id>>
extract_vars == <<props, date_value>>

\* main, line 96
LoadLocalEnv ==
    /\ pc = "start"
    /\ environ' = load_local_env(environ, env_file)
    /\ pc' = "env_loaded"
    /\ UNCHANGED <<env_file, secrets, notion_token, database_id, http_requests,
                   response, rows, shown, exception, frame_vars, extract_vars>>

\* main, lines 97-100
ReadSecrets ==
    /\ pc = "env_loaded"
    /\ notion_token' = read_secret("NOTION_TOKEN")
    /\ database_id' = read_secret("DATABASE_ID")
    /\ shown' = Append(shown, Title)
    /\ pc' = "configured"
    /\ UNCHANGED <<environ, env_file, secrets, http_requests, response, rows,
                   exception, frame_vars, extract_vars>>

\* variant: a test for None instead of a test for falsy
ConfigMissing_is_none == notion_token = None \/ database_id = None

\* not notion_token or not database_id
ConfigMissing == ~Truthy(notion_token) \/ ~Truthy(database_id)

\* main, lines 102-111
CheckConfig ==
    /\ pc = "configured"
    /\ IF ConfigMissing
       THEN /\ shown' = shown \o <<Call("error", "config", 0), Call("info", "config", 0)>>
            /\ pc' = "done"
       ELSE /\ shown' = shown
            /\ pc' = "ready"
    /\ UNCHANGED <<config_vars, http_requests, response, rows, exception,
                   frame_vars, extract_vars>>

\* main, lines 113-115, and fetch_notion_rows
FetchNotionRows ==
    /\ pc = "ready"
    /\ http_requests' = http_requests + 1
    /\ \E r \in Responses :
          /\ response' = Some(r)
          /\ IF FetchOutcome(r) # "ok"
             THEN /\ shown' = shown \o FetchReport(r)
                  /\ rows' = None
                  /\ exception' = ""
                  /\ pc' = "done"
             ELSE IF AnyItemRaises(r.results[1])
             THEN /\ shown' = shown
                  /\ rows' = None
                  /\ exception' = "AttributeError"
                  /\ pc' = "crashed"
             ELSE /\ shown' = shown
                  /\ rows' = Some(MapItems(r.results[1]))
                  /\ exception' = ""
                  /\ pc' = "fetched"
    /\ UNCHANGED <<config_vars, frame_vars, extract_vars>>

\* main, lines 117-125. Every record has the key "date", so the frame of a
\* non-empty list has the column and the branch of line 122 is never taken.
BuildFrame ==
    /\ pc = "fetched"
    /\ df' = rows[1]
    /\ dtypes' = [m \in ChartCols |-> ColumnDtype(rows[1], m)]
    /\ IF rows[1] = << >>
       THEN /\ shown' = Append(shown, Call("warning", "no_data", 0))
            /\ pc' = "done"
       ELSE /\ shown' = shown
            /\ pc' = "framed"
    /\ UNCHANGED <<config_vars, http_requests, response, rows, exception,
                   raw_date_count, daily_avg_df, agg_cols, extract_vars>>

\* variant: the number of rows
notna_count_all_rows(d) == Len(d)

\* df["date"].notna().sum()
notna_count(d) == Cardinality({i \in 1..Len(d) : d[i].date # None})

\* the date column replaced by its parsed values
parse_dates(d) == [i \in 1..Len(d) |-> [d[i] EXCEPT !.date = to_datetime(d[i].date)]]

\* main, lines 127-132
ParseDates ==
    /\ pc = "framed"
    /\ raw_date_count' = notna_count(df)
    /\ df' = sort_values(dropna(parse_dates(df)))
    /\ IF df' = << >>
       THEN /\ shown' = Append(shown, Call("warning", "no_valid_dates", raw_date_count'))
            /\ pc' = "done"
       ELSE /\ shown' = shown
            /\ pc' = "parsed"
    /\ UNCHANGED <<config_vars, http_requests, response, rows, exception,
                   dtypes, daily_avg_df, agg_cols, extract_vars>>

\* main, lines 134-139
Aggregate ==
    /\ pc = "parsed"
    /\ daily_avg_df' = groupby_mean(df, dtypes)
    /\ agg_cols' = NumericCols(dtypes)
    /\ pc' = "aggregated"
    /\ UNCHANGED <<config_vars, http_requests, response, rows, shown, exception,
                   df, dtypes, raw_date_count, extract_vars>>

\* variant: the aggregate is also shown as a table
Render_with_table ==
    /\ pc = "aggregated"
    /\ IF melt_raises(agg_cols)
       THEN /\ shown' = shown
            /\ exception' = "KeyError"
            /\ pc' = "crashed"
       ELSE /\ shown' = shown \o <<Call("altair_chart", "chart", Len(daily_avg_df)),
                                    Call("dataframe", "daily_avg_df", Len(daily_avg_df))>>
            /\ exception' = ""
            /\ pc' = "done"
    /\ UNCHANGED <<config_vars, http_requests, response, rows, frame_vars, extract_vars>>

\* main, lines 140-184
Render ==
    /\ pc = "aggregated"
    /\ IF melt_raises(agg_cols)
       THEN /\ shown' = shown
            /\ exception' = "KeyError"
            /\ pc' = "crashed"
       ELSE /\ shown' = Append(shown, Call("altair_chart", "chart", Len(daily_avg_df)))
            /\ exception' = ""
            /\ pc' = "done"
    /\ UNCHANGED <<config_vars, http_requests, response, rows, frame_vars, extract_vars>>

\* one call of extract_date_value
ExtractDateValue ==
    /\ pc = "extract_date_value"
    /\ date_value' = extract_date_value(props)
    /\ pc' = "extracted"
    /\ UNCHANGED <<config_vars, http_requests, response, rows, shown, exception,
                   frame_vars, props>>

Next ==
    \/ LoadLocalEnv
    \/ ReadSecrets
    \/ CheckConfig
    \/ FetchNotionRows
    \/ BuildFrame
    \/ ParseDates
    \/ Aggregate
    \/ Render

NextAgg ==
    \/ BuildFrame
    \/ ParseDates
    \/ Aggregate
    \/ Render

NextExtract == ExtractDateValue

Spec == Init /\ [][Next]_vars
SpecAgg == InitAgg /\ [][NextAgg]_vars
SpecExtract == InitExtract /\ [][NextExtract]_vars

(***************************************************************************)
(* Properties                                                              *)
(***************************************************************************)
Ended == pc \in {"done", "crashed"}
ChartShown == Has("altair_chart", "chart")
TableShown == \E i \in 1..Len(shown) : shown[i].call = "dataframe"

\* the property of p named "date" is date-typed and carries a date object
NamedDateObject(p) ==
    /\ \E i \in 1..Len(p) : p[i].name = "date"
    /\ \A i \in 1..Len(p) : p[i].name = "date" =>
          /\ p[i].value # None
          /\ p[i].value[1].type = "date"
          /\ p[i].value[1].date # None

\* the property of p named "date" is date-typed and its date object is absent
NamedDateEmpty(p) ==
    /\ \E i \in 1..Len(p) : p[i].name = "date"
    /\ \A i \in 1..Len(p) : p[i].name = "date" =>
          /\ p[i].value # None
          /\ p[i].value[1].type = "date"
          /\ p[i].value[1].date = None

\* entry i of p is date-typed and carries a date object
CarriesDate(p, i) ==
    /\ p[i].value # None
    /\ p[i].value[1].type = "date"
    /\ p[i].value[1].date # None

StartOf(p, i) == p[i].value[1].date[1].start

\* C1: when the property named "date" is date-typed and has a start value S,
\* extract_date_value returns S, whatever other date-typed properties are
\* present and wherever they sit in the iteration order.
C1_NamedDateStartReturned ==
    (pc = "extracted" /\ NamedDateObject(props)) =>
        \A i \in 1..Len(props) :
            (props[i].name = "date" /\ StartOf(props, i) # None) =>
                date_value = StartOf(props, i)

\* C1 witness: "date" has a start value and an earlier property is
\* date-typed with a different start value
C1_Witness ==
    /\ pc = "extracted"
    /\ NamedDateObject(props)
    /\ \E i, j \in 1..Len(props) :
          /\ j < i
          /\ props[i].name = "date"
          /\ StartOf(props, i) # None
          /\ CarriesDate(props, j)
          /\ StartOf(props, j) # None
          /\ StartOf(props, j) # StartOf(props, i)
          /\ date_value = StartOf(props, i)

\* C2 as stated: when the property named "date" is date-typed but its date
\* object is absent, extract_date_value returns absent, even when another
\* property is date-typed and carries a start value.
C2_Original ==
    (pc = "extracted" /\ NamedDateEmpty(props)) => date_value = None

\* C2 amended: when the property named "date" is date-typed but its date
\* object is absent, extract_date_value falls through to the scan: it returns
\* the start of the first property in iteration order that is date-typed and
\* carries a date object, and absent only when there is no such property.
C2_EmptyNamedDateFallsThrough ==
    (pc = "extracted" /\ NamedDateEmpty(props)) =>
        /\ (\A i \in 1..Len(props) : ~CarriesDate(props, i)) => date_value = None
        /\ \A i \in 1..Len(props) :
              (CarriesDate(props, i) /\ \A j \in 1..(i - 1) : ~CarriesDate(props, j))
                  => date_value = StartOf(props, i)

\* C2 witness: "date" is date-typed without a date object, another property
\* carries a start value, and that value was returned
C2_Witness ==
    /\ pc = "extracted"
    /\ NamedDateEmpty(props)
    /\ date_value # None
    /\ \E i \in 1..Len(props) :
          /\ props[i].name # "date"
          /\ CarriesDate(props, i)
          /\ date_value = StartOf(props, i)

\* the run has received a response whose body is JSON
JsonResponse ==
    /\ response # None
    /\ response[1].transport_ok
    /\ response[1].is_json

Rejected == Has("error", "http_error") /\ rows = None /\ Ended

C4_NoRequestWithoutConfiguration ==
    /\ http_requests <= 1
    /\ \A n \in SecretNames :
          (pc \notin {"start", "env_loaded"} /\ ~Truthy(environ[n]) /\ ~Truthy(secrets[n]))
              => ~Truthy(IF n = "NOTION_TOKEN" THEN notion_token ELSE database_id)
    /\ (/\ pc \notin {"start", "env_loaded"}
        /\ (~Truthy(notion_token) \/ ~Truthy(database_id)))
           => /\ http_requests = 0
              /\ response = None
              /\ pc \in {"configured", "done"}
              /\ pc = "done" => /\ Has("error", "config")
                                /\ ~ChartShown

\* C4 witness: the token resolved, the database id resolved to the empty
\* string, and the run ended on the configuration message
C4_Witness ==
    /\ pc = "done"
    /\ Truthy(notion_token)
    /\ database_id = Some("")
    /\ Has("error", "config")
    /\ http_requests = 0

\* configuration present, a record list fetched, and a record with a date
\* that parses
RenderingConditions ==
    /\ Truthy(notion_token)
    /\ Truthy(database_id)
    /\ rows # None
    /\ \E i \in 1..Len(rows[1]) : to_datetime(rows[1][i].date) # None

\* C5: a chart is rendered only if configuration was present, the fetch
\* returned a record list and at least one record has a parseable date; in
\* every other case the run ends after showing a message, with no aggregation
\* attempted after a fetch failure and no chart rendered.
C5_ChartOnlyAfterValidData ==
    /\ ChartShown => RenderingConditions
    /\ (Ended /\ ~RenderingConditions) =>
          /\ pc = "done"
          /\ Messages # {}
          /\ ~ChartShown
    /\ (Ended /\ rows = None) =>
          /\ df = << >>
          /\ daily_avg_df = << >>

\* the aggregate has been computed
Aggregated == pc \in {"aggregated", "done", "crashed"} /\ daily_avg_df # << >>

\* C6: the aggregate groups records by calendar date only: records of the
\* same calendar day with different times of day land in the same group, so
\* there is exactly one AggregateRow per distinct calendar date, with dates
\* unique and sorted ascending.
C6_OneRowPerCalendarDate ==
    Aggregated =>
        /\ Len(daily_avg_df) =
              Cardinality({CalendarDay(df[i].date[1]) : i \in 1..Len(df)})
        /\ \A i, j \in 1..Len(daily_avg_df) :
              i < j => CalendarDay(daily_avg_df[i].date) < CalendarDay(daily_avg_df[j].date)

\* the "no valid dates" warnings shown
NoValidDateWarnings ==
    {i \in 1..Len(shown) : shown[i].call = "warning" /\ shown[i].msg = "no_valid_dates"}

\* C7 as stated: the "no valid dates" warning carries the total number of
\* fetched records, records whose date was absent included.
C7_Original ==
    \A i \in NoValidDateWarnings : shown[i].arg = Len(rows[1])

\* C7 amended: the "no valid dates" warning carries the number of fetched
\* records whose raw date value is not absent (unparseable text counts,
\* a null date does not).
C7_WarningCountsNonNullDates ==
    \A i \in NoValidDateWarnings :
        /\ pc = "done"
        /\ shown[i].arg = Cardinality({k \in 1..Len(rows[1]) : rows[1][k].date # None})

\* C7 witness: the warning was shown for a record with unparseable text and a
\* record with a null date, and it carries 1
C7_Witness ==
    /\ NoValidDateWarnings # {}
    /\ Len(rows[1]) = 2
    /\ \E k \in 1..2 : rows[1][k].date = None
    /\ \E k \in 1..2 : rows[1][k].date # None
    /\ \A i \in NoValidDateWarnings : shown[i].arg = 1

\* the run got past the "no valid dates" test and has ended
EndedAfterRendering == Ended /\ daily_avg_df # << >>

C9_MappingNeverRaises ==
    (/\ JsonResponse
     /\ response[1].status_code = 200
     /\ response[1].results # None)
        => /\ exception # "AttributeError"
           /\ rows # None
           /\ Len(rows[1]) = Len(response[1].results[1])
           /\ \A i \in 1..Len(rows[1]) :
                 LET item == response[1].results[1][i]
                 IN (~item.has_properties \/ item.properties = None) =>
                        /\ rows[1][i].date = None
                        /\ \A m \in ChartCols : rows[1][i][m] = None

\* the rows of df in the order q
Reordered(d, q) == [i \in 1..Len(d) |-> d[q[i]]]

Bijections(n) == {q \in [1..n -> 1..n] : \A i, j \in 1..n : q[i] = q[j] => i = j}

RECURSIVE SumOver(_, _)
\* the sum of the metric m over the rows of df with index in idx
SumOver(idx, m) ==
    IF idx = {} THEN 0
    ELSE LET i == CHOOSE x \in idx : TRUE
         IN df[i][m][1] + SumOver(idx \ {i}, m)

\* C10: for every date group and each of the three metrics, the group's mean
\* is the sum of the non-missing values divided by their count, and it is
\* reported as missing when every value of that metric in the group is
\* missing; the result does not depend on the order of the input records.
C10_MeanOfNonMissingValues ==
    Aggregated =>
        /\ \A j \in 1..Len(daily_avg_df) : \A m \in ChartCols :
              LET idx == {i \in 1..Len(df) :
                            df[i].date[1] = daily_avg_df[j].date /\ df[i][m] # None}
                  row == daily_avg_df[j]
              IN /\ m \in DOMAIN row.mean
                 /\ IF idx = {}
                    THEN row.mean[m] = None
                    ELSE /\ row.mean[m] # None
                         /\ row.mean[m][1].num * Cardinality(idx)
                               = SumOver(idx, m) * row.mean[m][1].den
        /\ \A q \in Bijections(Len(rows[1])) :
              groupby_mean(sort_values(dropna(parse_dates(Reordered(rows[1], q)))), dtypes)
                  = daily_avg_df

====
